---- MODULE Spec2Model ----
(***************************************************************************)
(* Model of app/main.py: a FastAPI service with eight GET handlers over a  *)
(* fixed user list, Prometheus counters/histograms and a logging sink.     *)
(* All handlers are "async def" coroutines without any await, so a handler *)
(* that has been dispatched keeps the event loop until it returns or       *)
(* raises; time.sleep() is the blocking sleep of the time module.          *)
(* Times are in milliseconds.                                              *)
(***************************************************************************)
EXTENDS Bags, FiniteSets, Integers, Sequences, TLC

\* ---------------------------------------------------------------- bounds
\* number of requests (one per connection) the server receives in one behaviour
NumReq == 2
\* random.random() is drawn from {0/RandGrid, ..., (RandGrid-1)/RandGrid}
RandGrid == 2
\* user_id inputs range over (0 - IdSpan) .. (Len(InitialUsers) + IdSpan)
IdSpan == 1

\* ---------------------------------------------------------------- program constants
InitialUsers ==
    << [id |-> 1, name |-> "Alice",   email |-> "alice@example.com"],
       [id |-> 2, name |-> "Bob",     email |-> "bob@example.com"],
       [id |-> 3, name |-> "Charlie", email |-> "charlie@example.com"] >>

\* logging.basicConfig(level=logging.INFO)
LOG_LEVEL == "INFO"

\* numeric values of the logging module's levels
LevelNo(level) ==
    CASE level = "DEBUG"   -> 10
      [] level = "INFO"    -> 20
      [] level = "WARNING" -> 30
      [] level = "ERROR"   -> 40

\* the threshold of "random.random() < 0.05", in hundredths
ErrorPercent == 5

\* bounds of the three random.uniform() delays, in ms
UsersDelayMin == 50
UsersDelayMax == 300
UserDelayMin == 20
UserDelayMax == 150
SlowDelayMin == 500
SlowDelayMax == 1500

Routes == {"root", "get_users", "get_user", "slow_endpoint",
           "error_endpoint", "metrics", "health", "generate_logs"}

Req == 1..NumReq
NoReq == 0
RandDraws == 0..(RandGrid - 1)
UserIdInputs == (0 - IdSpan)..(Len(InitialUsers) + IdSpan)

VARIABLES
    req,            \* per connection: the request, the handler's position and what it did
    running,        \* the request whose handler holds the event loop, or NoReq
    prom_requests,  \* Counter http_requests_total: bag of <<method, endpoint, status>>
    prom_latency,   \* Histogram http_request_duration_seconds: labels -> [count, sum]
    log_sink,       \* the lines the logging handler has written, in order
    USERS_DB        \* the module-level list of user records

vars == <<req, running, prom_requests, prom_latency, log_sink, USERS_DB>>

\* ---------------------------------------------------------------- helpers
\* random.uniform(a, b) = a + (b - a) * random.random(), with random() = u / RandGrid
Uniform(a, b, u) == a + ((b - a) * u) \div RandGrid

\* the comparison of the draw turned around
InjectErrorInverted(u) == u * 100 > ErrorPercent * RandGrid

\* random.random() < 0.05, with random() = u / RandGrid
InjectError(u) == u * 100 < ErrorPercent * RandGrid

\* a log call: the record reaches the sink only at or above the configured level
Emit(sink, level, message, arg) ==
    IF LevelNo(level) >= LevelNo(LOG_LEVEL)
    THEN Append(sink, [level |-> level, message |-> message, arg |-> arg])
    ELSE sink

\* prom_requests.labels(method=.., endpoint=.., status=..).inc()
Inc(counter, method, endpoint, status) ==
    counter (+) SetToBag({<<method, endpoint, status>>})

\* prom_latency.labels(method=.., endpoint=..).observe(v)
Observe(hist, method, endpoint, v) ==
    LET l == <<method, endpoint>> IN
    IF l \in DOMAIN hist
    THEN [hist EXCEPT ![l] = [count |-> @.count + 1, sum |-> @.sum + v]]
    ELSE hist @@ (l :> [count |-> 1, sum |-> v])

\* the lookup done by list position, db[user_id], instead of by id
FirstMatchByIndex(db, user_id) ==
    IF user_id + 1 \in 1..Len(db) THEN <<db[user_id + 1]>> ELSE <<>>

\* next((u for u in db if u["id"] == user_id), None); None is <<>>, a hit is <<u>>
RECURSIVE FirstMatch(_, _)
FirstMatch(db, user_id) ==
    IF db = <<>> THEN <<>>
    ELSE IF Head(db).id = user_id THEN <<Head(db)>>
    ELSE FirstMatch(Tail(db), user_id)

\* "not user": None and the empty dict are falsy
Falsy(user) == user = <<>> \/ DOMAIN user[1] = {}

\* a connection with no request on it
IdleReq ==
    [route |-> "none", user_id |-> 0, pc |-> "idle", delay |-> 0, draw |-> 0,
     status |-> 0, detail |-> "", body |-> <<>>, user |-> <<>>,
     logs |-> <<>>, counted |-> <<>>, observed |-> <<>>, span |-> <<>>]

At(r, route, pc) == req[r].route = route /\ req[r].pc = pc

\* ---------------------------------------------------------------- server
Init ==
    /\ req = [r \in Req |-> IdleReq]
    /\ running = NoReq
    /\ prom_requests = EmptyBag
    /\ prom_latency = <<>>
    /\ log_sink = <<>>
    /\ USERS_DB = InitialUsers

\* a client sends a GET request; the path parameter is an integer
Arrive(r) ==
    /\ req[r].pc = "idle"
    /\ \E route \in Routes :
       \E uid \in UserIdInputs :
          /\ (route # "get_user") => uid = 0
          /\ req' = [req EXCEPT ![r] = [IdleReq EXCEPT !.route = route,
                                                      !.user_id = uid,
                                                      !.pc = "pending"]]
    /\ UNCHANGED <<running, prom_requests, prom_latency, log_sink, USERS_DB>>

\* the event loop runs the handler coroutine of a received request; it can do
\* so only when no other handler is running on the loop's single thread
Dispatch(r) ==
    /\ req[r].pc = "pending"
    /\ running = NoReq
    /\ running' = r
    /\ req' = [req EXCEPT ![r].pc = "start"]
    /\ UNCHANGED <<prom_requests, prom_latency, log_sink, USERS_DB>>

\* ---------------------------------------------------------------- root
RootLog(r) ==
    /\ At(r, "root", "start")
    /\ log_sink' = Emit(log_sink, "INFO", "Root endpoint accessed", <<>>)
    /\ req' = [req EXCEPT ![r].pc = "return",
                          ![r].logs = Emit(@, "INFO", "Root endpoint accessed", <<>>)]
    /\ UNCHANGED <<running, prom_requests, prom_latency, USERS_DB>>

RootReturn(r) ==
    /\ At(r, "root", "return")
    /\ req' = [req EXCEPT ![r].pc = "done", ![r].delay = 0, ![r].status = 200,
                          ![r].body = <<[status |-> "ok", service |-> "sample-api"]>>]
    /\ running' = NoReq
    /\ UNCHANGED <<prom_requests, prom_latency, log_sink, USERS_DB>>

\* ---------------------------------------------------------------- error_endpoint
ErrorLog(r) ==
    /\ At(r, "error_endpoint", "start")
    /\ log_sink' = Emit(log_sink, "ERROR", "Intentional error triggered", <<>>)
    /\ req' = [req EXCEPT ![r].pc = "inc",
                          ![r].logs = Emit(@, "ERROR", "Intentional error triggered", <<>>)]
    /\ UNCHANGED <<running, prom_requests, prom_latency, USERS_DB>>

ErrorInc(r) ==
    /\ At(r, "error_endpoint", "inc")
    /\ prom_requests' = Inc(prom_requests, "GET", "/api/error", "500")
    /\ req' = [req EXCEPT ![r].pc = "raise",
                          ![r].counted = Append(@, <<"GET", "/api/error", "500">>)]
    /\ UNCHANGED <<running, prom_latency, log_sink, USERS_DB>>

\* the exception raised with another status code
ErrorRaiseUnavailable(r) ==
    /\ At(r, "error_endpoint", "raise")
    /\ req' = [req EXCEPT ![r].pc = "done", ![r].delay = 0, ![r].status = 503,
                          ![r].detail = "Intentional error for testing",
                          ![r].body = <<[detail |-> "Intentional error for testing"]>>]
    /\ running' = NoReq
    /\ UNCHANGED <<prom_requests, prom_latency, log_sink, USERS_DB>>

ErrorRaise(r) ==
    /\ At(r, "error_endpoint", "raise")
    /\ req' = [req EXCEPT ![r].pc = "done", ![r].delay = 0, ![r].status = 500,
                          ![r].detail = "Intentional error for testing",
                          ![r].body = <<[detail |-> "Intentional error for testing"]>>]
    /\ running' = NoReq
    /\ UNCHANGED <<prom_requests, prom_latency, log_sink, USERS_DB>>

\* ---------------------------------------------------------------- metrics
\* generate_latest(): the text exposition of the registry, as its samples
MetricsReturn(r) ==
    /\ At(r, "metrics", "start")
    /\ req' = [req EXCEPT ![r].pc = "done", ![r].delay = 0, ![r].status = 200,
                          ![r].body = <<[http_requests_total |-> prom_requests,
                                         http_request_duration_seconds |-> prom_latency]>>]
    /\ running' = NoReq
    /\ UNCHANGED <<prom_requests, prom_latency, log_sink, USERS_DB>>

\* ---------------------------------------------------------------- health
HealthReturn(r) ==
    /\ At(r, "health", "start")
    /\ req' = [req EXCEPT ![r].pc = "done", ![r].delay = 0, ![r].status = 200,
                          ![r].body = <<[status |-> "healthy"]>>]
    /\ running' = NoReq
    /\ UNCHANGED <<prom_requests, prom_latency, log_sink, USERS_DB>>

\* ---------------------------------------------------------------- generate_logs
LogsDebug(r) ==
    /\ At(r, "generate_logs", "start")
    /\ log_sink' = Emit(log_sink, "DEBUG", "Debug log message", <<>>)
    /\ req' = [req EXCEPT ![r].pc = "info",
                          ![r].logs = Emit(@, "DEBUG", "Debug log message", <<>>)]
    /\ UNCHANGED <<running, prom_requests, prom_latency, USERS_DB>>

LogsInfo(r) ==
    /\ At(r, "generate_logs", "info")
    /\ log_sink' = Emit(log_sink, "INFO", "Info log message", <<>>)
    /\ req' = [req EXCEPT ![r].pc = "warning",
                          ![r].logs = Emit(@, "INFO", "Info log message", <<>>)]
    /\ UNCHANGED <<running, prom_requests, prom_latency, USERS_DB>>

LogsWarning(r) ==
    /\ At(r, "generate_logs", "warning")
    /\ log_sink' = Emit(log_sink, "WARNING", "Warning log message", <<>>)
    /\ req' = [req EXCEPT ![r].pc = "error",
                          ![r].logs = Emit(@, "WARNING", "Warning log message", <<>>)]
    /\ UNCHANGED <<running, prom_requests, prom_latency, USERS_DB>>

LogsError(r) ==
    /\ At(r, "generate_logs", "error")
    /\ log_sink' = Emit(log_sink, "ERROR", "Error log message", <<>>)
    /\ req' = [req EXCEPT ![r].pc = "return",
                          ![r].logs = Emit(@, "ERROR", "Error log message", <<>>)]
    /\ UNCHANGED <<running, prom_requests, prom_latency, USERS_DB>>

LogsReturn(r) ==
    /\ At(r, "generate_logs", "return")
    /\ req' = [req EXCEPT ![r].pc = "done", ![r].delay = 0, ![r].status = 200,
                          ![r].body = <<[message |-> "Logs generated"]>>]
    /\ running' = NoReq
    /\ UNCHANGED <<prom_requests, prom_latency, log_sink, USERS_DB>>

\* ---------------------------------------------------------------- get_users
\* span opened, start taken, the handler enters time.sleep(random.uniform(0.05, 0.3))
GetUsersSleep(r) ==
    /\ At(r, "get_users", "start")
    /\ \E u \in RandDraws :
          req' = [req EXCEPT ![r].pc = "sleep",
                             ![r].delay = Uniform(UsersDelayMin, UsersDelayMax, u)]
    /\ UNCHANGED <<running, prom_requests, prom_latency, log_sink, USERS_DB>>

\* the sleep is over; "if random.random() < 0.05" chooses the branch
GetUsersDraw(r) ==
    /\ At(r, "get_users", "sleep")
    /\ \E u \in RandDraws :
          req' = [req EXCEPT ![r].draw = u,
                             ![r].pc = IF InjectError(u) THEN "fail_log" ELSE "ok_log"]
    /\ UNCHANGED <<running, prom_requests, prom_latency, log_sink, USERS_DB>>

GetUsersFailLog(r) ==
    /\ At(r, "get_users", "fail_log")
    /\ log_sink' = Emit(log_sink, "ERROR", "Failed to fetch users", <<>>)
    /\ req' = [req EXCEPT ![r].pc = "fail_inc",
                          ![r].logs = Emit(@, "ERROR", "Failed to fetch users", <<>>)]
    /\ UNCHANGED <<running, prom_requests, prom_latency, USERS_DB>>

GetUsersFailInc(r) ==
    /\ At(r, "get_users", "fail_inc")
    /\ prom_requests' = Inc(prom_requests, "GET", "/api/users", "500")
    /\ req' = [req EXCEPT ![r].pc = "fail_raise",
                          ![r].counted = Append(@, <<"GET", "/api/users", "500">>)]
    /\ UNCHANGED <<running, prom_latency, log_sink, USERS_DB>>

GetUsersFailRaise(r) ==
    /\ At(r, "get_users", "fail_raise")
    /\ req' = [req EXCEPT ![r].pc = "done", ![r].delay = 0, ![r].status = 500,
                          ![r].span = Append(@, <<"error", TRUE>>),
                          ![r].detail = "Database error",
                          ![r].body = <<[detail |-> "Database error"]>>]
    /\ running' = NoReq
    /\ UNCHANGED <<prom_requests, prom_latency, log_sink, USERS_DB>>

GetUsersOkLog(r) ==
    /\ At(r, "get_users", "ok_log")
    /\ log_sink' = Emit(log_sink, "INFO", "Fetched {} users", <<Len(USERS_DB)>>)
    /\ req' = [req EXCEPT ![r].pc = "ok_inc",
                          ![r].logs = Emit(@, "INFO", "Fetched {} users", <<Len(USERS_DB)>>)]
    /\ UNCHANGED <<running, prom_requests, prom_latency, USERS_DB>>

GetUsersOkInc(r) ==
    /\ At(r, "get_users", "ok_inc")
    /\ prom_requests' = Inc(prom_requests, "GET", "/api/users", "200")
    /\ req' = [req EXCEPT ![r].pc = "ok_observe",
                          ![r].counted = Append(@, <<"GET", "/api/users", "200">>)]
    /\ UNCHANGED <<running, prom_latency, log_sink, USERS_DB>>

\* observe(time.time() - start): the time slept since start was taken
GetUsersOkObserve(r) ==
    /\ At(r, "get_users", "ok_observe")
    /\ prom_latency' = Observe(prom_latency, "GET", "/api/users", req[r].delay)
    /\ req' = [req EXCEPT ![r].pc = "return",
                          ![r].observed = Append(@, <<"GET", "/api/users">>)]
    /\ UNCHANGED <<running, prom_requests, log_sink, USERS_DB>>

GetUsersReturn(r) ==
    /\ At(r, "get_users", "return")
    /\ req' = [req EXCEPT ![r].pc = "done", ![r].delay = 0, ![r].status = 200,
                          ![r].span = Append(@, <<"user.count", Len(USERS_DB)>>),
                          ![r].body = <<[users |-> USERS_DB]>>]
    /\ running' = NoReq
    /\ UNCHANGED <<prom_requests, prom_latency, log_sink, USERS_DB>>

\* ---------------------------------------------------------------- get_user
\* span opened, start taken, user.id set, the handler enters
\* time.sleep(random.uniform(0.02, 0.15))
GetUserSleep(r) ==
    /\ At(r, "get_user", "start")
    /\ \E u \in RandDraws :
          req' = [req EXCEPT ![r].pc = "sleep",
                             ![r].span = Append(@, <<"user.id", req[r].user_id>>),
                             ![r].delay = Uniform(UserDelayMin, UserDelayMax, u)]
    /\ UNCHANGED <<running, prom_requests, prom_latency, log_sink, USERS_DB>>

\* the sleep is over; the lookup and "if not user" choose the branch
GetUserLookup(r) ==
    /\ At(r, "get_user", "sleep")
    /\ LET user == FirstMatch(USERS_DB, req[r].user_id) IN
          req' = [req EXCEPT ![r].user = user,
                             ![r].pc = IF Falsy(user) THEN "nf_log" ELSE "ok_log"]
    /\ UNCHANGED <<running, prom_requests, prom_latency, log_sink, USERS_DB>>

GetUserNotFoundLog(r) ==
    /\ At(r, "get_user", "nf_log")
    /\ log_sink' = Emit(log_sink, "WARNING", "User not found: {}", <<req[r].user_id>>)
    /\ req' = [req EXCEPT ![r].pc = "nf_inc",
                          ![r].logs = Emit(@, "WARNING", "User not found: {}", <<req[r].user_id>>)]
    /\ UNCHANGED <<running, prom_requests, prom_latency, USERS_DB>>

\* the not-found path counted under the success label
GetUserNotFoundIncAsOk(r) ==
    /\ At(r, "get_user", "nf_inc")
    /\ prom_requests' = Inc(prom_requests, "GET", "/api/users/{id}", "200")
    /\ req' = [req EXCEPT ![r].pc = "nf_raise",
                          ![r].counted = Append(@, <<"GET", "/api/users/{id}", "200">>)]
    /\ UNCHANGED <<running, prom_latency, log_sink, USERS_DB>>

GetUserNotFoundInc(r) ==
    /\ At(r, "get_user", "nf_inc")
    /\ prom_requests' = Inc(prom_requests, "GET", "/api/users/{id}", "404")
    /\ req' = [req EXCEPT ![r].pc = "nf_raise",
                          ![r].counted = Append(@, <<"GET", "/api/users/{id}", "404">>)]
    /\ UNCHANGED <<running, prom_latency, log_sink, USERS_DB>>

GetUserNotFoundRaise(r) ==
    /\ At(r, "get_user", "nf_raise")
    /\ req' = [req EXCEPT ![r].pc = "done", ![r].delay = 0, ![r].status = 404,
                          ![r].span = Append(@, <<"error", TRUE>>),
                          ![r].detail = "User not found",
                          ![r].body = <<[detail |-> "User not found"]>>]
    /\ running' = NoReq
    /\ UNCHANGED <<prom_requests, prom_latency, log_sink, USERS_DB>>

GetUserOkLog(r) ==
    /\ At(r, "get_user", "ok_log")
    /\ log_sink' = Emit(log_sink, "INFO", "Fetched user: {}", <<req[r].user_id>>)
    /\ req' = [req EXCEPT ![r].pc = "ok_inc",
                          ![r].logs = Emit(@, "INFO", "Fetched user: {}", <<req[r].user_id>>)]
    /\ UNCHANGED <<running, prom_requests, prom_latency, USERS_DB>>

GetUserOkInc(r) ==
    /\ At(r, "get_user", "ok_inc")
    /\ prom_requests' = Inc(prom_requests, "GET", "/api/users/{id}", "200")
    /\ req' = [req EXCEPT ![r].pc = "ok_observe",
                          ![r].counted = Append(@, <<"GET", "/api/users/{id}", "200">>)]
    /\ UNCHANGED <<running, prom_latency, log_sink, USERS_DB>>

GetUserOkObserve(r) ==
    /\ At(r, "get_user", "ok_observe")
    /\ prom_latency' = Observe(prom_latency, "GET", "/api/users/{id}", req[r].delay)
    /\ req' = [req EXCEPT ![r].pc = "return",
                          ![r].observed = Append(@, <<"GET", "/api/users/{id}">>)]
    /\ UNCHANGED <<running, prom_requests, log_sink, USERS_DB>>

\* the found record taken out of the list (USERS_DB.remove) before it is returned
GetUserReturnRemoving(r) ==
    /\ At(r, "get_user", "return")
    /\ req' = [req EXCEPT ![r].pc = "done", ![r].delay = 0, ![r].status = 200,
                          ![r].body = req[r].user]
    /\ USERS_DB' = SelectSeq(USERS_DB, LAMBDA u : <<u>> # req[r].user)
    /\ running' = NoReq
    /\ UNCHANGED <<prom_requests, prom_latency, log_sink>>

GetUserReturn(r) ==
    /\ At(r, "get_user", "return")
    /\ req' = [req EXCEPT ![r].pc = "done", ![r].delay = 0, ![r].status = 200,
                          ![r].body = req[r].user]
    /\ running' = NoReq
    /\ UNCHANGED <<prom_requests, prom_latency, log_sink, USERS_DB>>

\* ---------------------------------------------------------------- slow_endpoint
SlowLog(r) ==
    /\ At(r, "slow_endpoint", "start")
    /\ log_sink' = Emit(log_sink, "WARNING", "Slow endpoint called", <<>>)
    /\ req' = [req EXCEPT ![r].pc = "log",
                          ![r].logs = Emit(@, "WARNING", "Slow endpoint called", <<>>)]
    /\ UNCHANGED <<running, prom_requests, prom_latency, USERS_DB>>

\* the slow endpoint sleeping for the list-users range
SlowSleepShort(r) ==
    /\ At(r, "slow_endpoint", "log")
    /\ \E u \in RandDraws :
          req' = [req EXCEPT ![r].pc = "sleep",
                             ![r].delay = Uniform(UsersDelayMin, UsersDelayMax, u)]
    /\ UNCHANGED <<running, prom_requests, prom_latency, log_sink, USERS_DB>>

\* the handler enters time.sleep(random.uniform(0.5, 1.5))
SlowSleep(r) ==
    /\ At(r, "slow_endpoint", "log")
    /\ \E u \in RandDraws :
          req' = [req EXCEPT ![r].pc = "sleep",
                             ![r].delay = Uniform(SlowDelayMin, SlowDelayMax, u)]
    /\ UNCHANGED <<running, prom_requests, prom_latency, log_sink, USERS_DB>>

\* the slow endpoint also timing itself into the histogram
SlowIncObserving(r) ==
    /\ At(r, "slow_endpoint", "sleep")
    /\ prom_requests' = Inc(prom_requests, "GET", "/api/slow", "200")
    /\ prom_latency' = Observe(prom_latency, "GET", "/api/slow", req[r].delay)
    /\ req' = [req EXCEPT ![r].pc = "return",
                          ![r].counted = Append(@, <<"GET", "/api/slow", "200">>)]
    /\ UNCHANGED <<running, log_sink, USERS_DB>>

\* the sleep is over; the request is counted
SlowInc(r) ==
    /\ At(r, "slow_endpoint", "sleep")
    /\ prom_requests' = Inc(prom_requests, "GET", "/api/slow", "200")
    /\ req' = [req EXCEPT ![r].pc = "return",
                          ![r].counted = Append(@, <<"GET", "/api/slow", "200">>)]
    /\ UNCHANGED <<running, prom_latency, log_sink, USERS_DB>>

SlowReturn(r) ==
    /\ At(r, "slow_endpoint", "return")
    /\ req' = [req EXCEPT ![r].pc = "done", ![r].delay = 0, ![r].status = 200,
                          ![r].body = <<[message |-> "This was slow"]>>]
    /\ running' = NoReq
    /\ UNCHANGED <<prom_requests, prom_latency, log_sink, USERS_DB>>

\* ---------------------------------------------------------------- specification
Next ==
    \E r \in Req :
       \/ Arrive(r) \/ Dispatch(r)
       \/ RootLog(r) \/ RootReturn(r)
       \/ GetUsersSleep(r) \/ GetUsersDraw(r)
       \/ GetUsersFailLog(r) \/ GetUsersFailInc(r) \/ GetUsersFailRaise(r)
       \/ GetUsersOkLog(r) \/ GetUsersOkInc(r) \/ GetUsersOkObserve(r) \/ GetUsersReturn(r)
       \/ GetUserSleep(r) \/ GetUserLookup(r)
       \/ GetUserNotFoundLog(r) \/ GetUserNotFoundInc(r) \/ GetUserNotFoundRaise(r)
       \/ GetUserOkLog(r) \/ GetUserOkInc(r) \/ GetUserOkObserve(r) \/ GetUserReturn(r)
       \/ SlowLog(r) \/ SlowSleep(r) \/ SlowInc(r) \/ SlowReturn(r)
       \/ ErrorLog(r) \/ ErrorInc(r) \/ ErrorRaise(r)
       \/ MetricsReturn(r) \/ HealthReturn(r)
       \/ LogsDebug(r) \/ LogsInfo(r) \/ LogsWarning(r) \/ LogsError(r) \/ LogsReturn(r)

Spec == Init /\ [][Next]_vars

\* ---------------------------------------------------------------- properties
Done(r) == req[r].pc = "done"

\* the endpoint label each handler passes to prom_requests / prom_latency
EndpointLabel(route) ==
    CASE route = "get_users"      -> "/api/users"
      [] route = "get_user"       -> "/api/users/{id}"
      [] route = "slow_endpoint"  -> "/api/slow"
      [] route = "error_endpoint" -> "/api/error"
      [] OTHER                    -> "/"

\* the status label that goes with a status code
StatusLabel(status) ==
    CASE status = 200 -> "200"
      [] status = 404 -> "404"
      [] status = 500 -> "500"
      [] OTHER        -> "none"

\* the levels of a sequence of log lines
Levels(lines) == [i \in 1..Len(lines) |-> lines[i].level]

\* C1: a finished get_user request has status 200 and the dataset record with
\* the requested id when the id is 1, 2 or 3, and status 404 with detail
\* "User not found" for every other integer; nothing else is reachable.
C1_GetUserContract ==
    \A r \in Req :
        (req[r].route = "get_user" /\ Done(r)) =>
            IF req[r].user_id \in {1, 2, 3}
            THEN /\ req[r].status = 200
                 /\ \E i \in 1..Len(InitialUsers) :
                       /\ InitialUsers[i].id = req[r].user_id
                       /\ req[r].body = <<InitialUsers[i]>>
            ELSE /\ req[r].status = 404
                 /\ req[r].detail = "User not found"
                 /\ req[r].body = <<[detail |-> "User not found"]>>

\* C1 witness: one lookup of id 2 has returned Bob and one lookup of a
\* non-positive id has ended 404.
C1_Witness ==
    \E r1, r2 \in Req :
        /\ req[r1].route = "get_user" /\ Done(r1) /\ req[r1].user_id = 2
        /\ req[r1].status = 200 /\ req[r1].body = <<InitialUsers[2]>>
        /\ req[r2].route = "get_user" /\ Done(r2) /\ req[r2].user_id <= 0
        /\ req[r2].status = 404

\* C2: a finished list-users request has failed with 500 "Database error"
\* exactly when its draw was below 0.05, and has otherwise returned 200 with
\* the three records in dataset order, whatever happened before it.
C2_GetUsersContract ==
    \A r \in Req :
        (req[r].route = "get_users" /\ Done(r)) =>
            IF req[r].draw * 100 < 5 * RandGrid
            THEN /\ req[r].status = 500
                 /\ req[r].detail = "Database error"
            ELSE /\ req[r].status = 200
                 /\ req[r].detail = ""
                 /\ req[r].body = <<[users |-> InitialUsers]>>

\* C2 witness: one list-users request has failed and another has succeeded.
C2_Witness ==
    \E r1, r2 \in Req :
        /\ req[r1].route = "get_users" /\ Done(r1) /\ req[r1].status = 500
        /\ req[r2].route = "get_users" /\ Done(r2) /\ req[r2].status = 200

\* C3: the always-error endpoint never sleeps, and when it has finished it has
\* status 500 and detail "Intentional error for testing".
C3_ErrorEndpointContract ==
    \A r \in Req :
        req[r].route = "error_endpoint" =>
            /\ req[r].pc # "sleep"
            /\ req[r].delay = 0
            /\ req[r].status \in {0, 500}
            /\ Done(r) => /\ req[r].status = 500
                          /\ req[r].detail = "Intentional error for testing"

\* C3 witness: an error request has finished after another request finished.
C3_Witness ==
    \E r1, r2 \in Req :
        /\ r1 # r2
        /\ Done(r2) /\ req[r2].route # "error_endpoint"
        /\ req[r1].route = "error_endpoint" /\ Done(r1) /\ req[r1].status = 500
        /\ log_sink # <<>>
        /\ log_sink[Len(log_sink)].message = "Intentional error triggered"

\* C4: while one request is in its sleep, the server can start the handler of
\* another request it has received.
C4_NonBlockingDelays ==
    \A r1, r2 \in Req :
        (r1 # r2 /\ req[r1].pc = "sleep" /\ req[r2].pc = "pending")
            => ENABLED Dispatch(r2)

\* C5: every finished request, on any route, has incremented
\* http_requests_total exactly once, with its route and status labels.
C5_EveryRequestCounted ==
    \A r \in Req :
        Done(r) => req[r].counted =
                      << <<"GET", EndpointLabel(req[r].route), StatusLabel(req[r].status)>> >>

\* C6: a request that ends 404 or 500 has, before the error is signalled,
\* written one warning or error line and incremented the counter once with
\* the status label of the code it ends with.
C6_ErrorsPaired ==
    \A r \in Req :
        LET code == IF req[r].pc \in {"fail_raise", "raise"} THEN 500
                    ELSE IF req[r].pc = "nf_raise" THEN 404
                    ELSE req[r].status
            lbl  == <<"GET", EndpointLabel(req[r].route), StatusLabel(code)>>
        IN  (req[r].pc \in {"fail_raise", "nf_raise", "raise"}
             \/ (Done(r) /\ req[r].status \in {404, 500})) =>
                /\ code \in {404, 500}
                /\ Len(req[r].logs) = 1
                /\ req[r].logs[1].level \in {"ERROR", "WARNING"}
                /\ \E i \in 1..Len(log_sink) : log_sink[i] = req[r].logs[1]
                /\ req[r].counted = <<lbl>>
                /\ CopiesIn(lbl, prom_requests) >= 1

\* C6 witness: a 404 and a 500 have both been signalled.
C6_Witness ==
    \E r1, r2 \in Req :
        /\ Done(r1) /\ req[r1].status = 404
        /\ Done(r2) /\ req[r2].status = 500

\* C7: a finished /logs request has written four lines, at debug, info,
\* warning and error in that order, and has status 200.
C7_LogsEmitsFour ==
    \A r \in Req :
        (req[r].route = "generate_logs" /\ Done(r)) =>
            /\ req[r].status = 200
            /\ Levels(req[r].logs) = <<"DEBUG", "INFO", "WARNING", "ERROR">>

\* C8: the slow endpoint never ends in an error; the delay it sleeps is at
\* least 500 ms and at most 1500 ms, and it finishes with 200 and its message.
C8_SlowContract ==
    \A r \in Req :
        req[r].route = "slow_endpoint" =>
            /\ req[r].status \in {0, 200}
            /\ req[r].pc \in {"sleep", "return"} =>
                  (req[r].delay >= 500 /\ req[r].delay <= 1500)
            /\ Done(r) => /\ req[r].status = 200
                          /\ req[r].body = <<[message |-> "This was slow"]>>

\* C8 witness: one slow request has answered and another is in a sleep
\* longer than the minimum.
C8_Witness ==
    \E r1, r2 \in Req :
        /\ req[r1].route = "slow_endpoint" /\ Done(r1) /\ req[r1].status = 200
        /\ req[r2].route = "slow_endpoint" /\ req[r2].pc = "sleep"
        /\ req[r2].delay > 500

\* C9: USERS_DB is always the three records it started with, in order, with
\* pairwise distinct ids.
C9_DatasetImmutable ==
    /\ USERS_DB = InitialUsers
    /\ Len(USERS_DB) = 3
    /\ \A i, j \in 1..Len(USERS_DB) : USERS_DB[i].id = USERS_DB[j].id => i = j
    /\ \A i \in 1..Len(USERS_DB) : USERS_DB[i].id = i

\* C9 witness: a list-users request and a successful get-user request have
\* both finished.
C9_Witness ==
    \E r1, r2 \in Req :
        /\ req[r1].route = "get_users" /\ Done(r1) /\ req[r1].status = 200
        /\ req[r2].route = "get_user" /\ Done(r2) /\ req[r2].status = 200

\* C10: the histogram gets one observation, under the route's label, from
\* each list-users or get-user request that ends 200, and none from any other
\* request: its counts are exactly the observations of those requests.
C10_HistogramOnlyOnSuccess ==
    /\ \A r \in Req :
          /\ Len(req[r].observed) <= 1
          /\ req[r].observed # <<>> =>
                /\ req[r].route \in {"get_users", "get_user"}
                /\ req[r].observed = << <<"GET", EndpointLabel(req[r].route)>> >>
                /\ req[r].status \in {0, 200}
                /\ req[r].counted = << <<"GET", EndpointLabel(req[r].route), "200">> >>
          /\ Done(r) =>
                (req[r].observed # <<>>
                    <=> (req[r].route \in {"get_users", "get_user"} /\ req[r].status = 200))
    /\ DOMAIN prom_latency \subseteq {<<"GET", "/api/users">>, <<"GET", "/api/users/{id}">>}
    /\ \A l \in DOMAIN prom_latency :
          prom_latency[l].count = Cardinality({r \in Req : req[r].observed = <<l>>})
    /\ \A r \in Req : \A i \in 1..Len(req[r].observed) :
          req[r].observed[i] \in DOMAIN prom_latency

\* C10 witness: a list-users request has ended 200 and been observed, and a
\* get-user request has ended 404 leaving the histogram with one observation.
C10_Witness ==
    \E r1, r2 \in Req :
        /\ req[r1].route = "get_users" /\ Done(r1) /\ req[r1].status = 200
        /\ req[r2].route = "get_user" /\ Done(r2) /\ req[r2].status = 404
        /\ DOMAIN prom_latency = {<<"GET", "/api/users">>}
        /\ prom_latency[<<"GET", "/api/users">>].count = 1

====
